---- MODULE Spec2Model ----
(***************************************************************************)
(* A model of squiggly_shapes: the Improved Perlin Noise engine            *)
(* (src/src/perlin.rs) and the validated 2D primitives (src/src/geom.rs).  *)
(*                                                                         *)
(* The program computes in IEEE-754 binary32 (Rust f32).  A float is       *)
(* modelled bit-exactly as a record [k, s, m, e]: kind k ("fin", "inf",    *)
(* "nan"), sign s, and for a finite value the magnitude m * 2^e with       *)
(* either 2^23 <= m < 2^24 (normal) or e = -149 (subnormal, zero).  Every  *)
(* arithmetic operator rounds to nearest, ties to even, as the hardware    *)
(* does.  The sign of zero is not kept: no operation the program applies    *)
(* (+, -, *, sqrt, floor, comparisons, casts, division by the constant     *)
(* 4.0) can tell -0.0 from 0.0.                                            *)
(***************************************************************************)
EXTENDS Integers, Sequences, FiniteSets

VARIABLES
    table,   \* the permutation table P as it sits in memory
    pc,      \* position of the one call in flight: "call", "done", "area"
    fn,      \* the function being called
    args,    \* its arguments
    locals,  \* its local variables once it has run
    ret      \* its return value once it has run

vars == <<table, pc, fn, args, locals, ret>>

(***************************************************************************)
(* f32                                                                     *)
(***************************************************************************)
Pow2(k) == 2^k

Max(a, b) == IF a >= b THEN a ELSE b

\* Number of significant bits of n (0 <= n < 2^30).
BitLen(n) == IF n = 0 THEN 0 ELSE CHOOSE k \in 1..30 : Pow2(k - 1) <= n /\ n < Pow2(k)

F32(s, m, e) == [k |-> "fin", s |-> s, m |-> m, e |-> e]

Zero == F32(0, 0, -149)

Inf(s) == [k |-> "inf", s |-> s, m |-> 0, e |-> 0]

NaN == [k |-> "nan", s |-> 0, m |-> 0, e |-> 0]

IsZero(a) == a.k = "fin" /\ a.m = 0

\* A finite f32 from sign, magnitude q <= 2^24 and exponent e >= -149: a magnitude
\* of 2^24 (a carry out of the rounding) is renormalised, and a value above
\* f32::MAX overflows to infinity.
Pack(s, q, e) ==
    IF q = 0 THEN Zero
    ELSE IF q = Pow2(24) THEN (IF e + 1 > 104 THEN Inf(s) ELSE F32(s, Pow2(23), e + 1))
    ELSE IF e > 104 THEN Inf(s)
    ELSE F32(s, q, e)

\* Round to nearest, ties to even: q is the kept part, r the part cut off, half the
\* weight of the first bit cut off, sticky whether more was cut off below r.
RoundNearestEven(s, q, r, half, e, sticky) ==
    Pack(s, IF r > half \/ (r = half /\ (sticky \/ q % 2 = 1)) THEN q + 1 ELSE q, e)

\* m * 2^e cut by d bits (d > 0) or widened by -d bits (exact).
RoundShift(s, m, e, sticky, d) ==
    IF m = 0 THEN Zero
    ELSE IF d <= 0 THEN Pack(s, m * Pow2(-d), e + d)
    ELSE IF d > 30 THEN Zero
    ELSE RoundNearestEven(s, m \div Pow2(d), m % Pow2(d), Pow2(d - 1), e + d, sticky)

\* The f32 nearest to (-1)^s * (m + t) * 2^e, where 0 <= m < 2^30 and t is some
\* fraction in (0,1) when sticky holds and 0 otherwise: round to nearest, ties to
\* even, gradual underflow below 2^-126, overflow to infinity above f32::MAX.
RoundPack(s, m, e, sticky) == RoundShift(s, m, e, sticky, Max(BitLen(m) - 24, (-149) - e))

\* `i as f32` for an integer |i| < 2^30.
FromInt(i) == RoundPack(IF i < 0 THEN 1 ELSE 0, IF i < 0 THEN -i ELSE i, 0, FALSE)

\* Unary minus.
F32Neg(a) == IF a.k = "nan" \/ IsZero(a) THEN a ELSE [a EXCEPT !.s = 1 - a.s]

\* m shifted right by d bits, a lost non-zero bit kept in the lowest bit.
ShiftRightJam(m, d) ==
    IF d = 0 THEN m
    ELSE IF d > 27 THEN (IF m = 0 THEN 0 ELSE 1)
    ELSE IF m % Pow2(d) # 0 /\ (m \div Pow2(d)) % 2 = 0 THEN m \div Pow2(d) + 1
    ELSE m \div Pow2(d)

\* The sum of two aligned magnitudes ma * 2^e and mb * 2^e with their signs.
AddAligned(sa, ma, sb, mb, e) ==
    IF sa = sb THEN RoundPack(sa, ma + mb, e, FALSE)
    ELSE IF ma >= mb THEN RoundPack(sa, ma - mb, e, FALSE)
    ELSE RoundPack(sb, mb - ma, e, FALSE)

\* a + b on finite non-zero operands, a the one with the larger exponent: both
\* magnitudes get three more bits, b's is shifted down to a's exponent.
AddFinite(a, b) == AddAligned(a.s, a.m * 8, b.s, ShiftRightJam(b.m * 8, a.e - b.e), a.e - 3)

\* a + b
F32Add(a, b) ==
    IF a.k = "nan" \/ b.k = "nan" THEN NaN
    ELSE IF a.k = "inf" THEN (IF b.k = "inf" /\ b.s # a.s THEN NaN ELSE a)
    ELSE IF b.k = "inf" THEN b
    ELSE IF IsZero(a) THEN b
    ELSE IF IsZero(b) THEN a
    ELSE IF a.e >= b.e THEN AddFinite(a, b) ELSE AddFinite(b, a)

\* a - b
F32Sub(a, b) == F32Add(a, F32Neg(b))

\* The 48-bit product hi * 2^24 + lo cut by `cut` bits to 28 bits and a sticky bit.
MulCut(s, hi, lo, e, cut) ==
    RoundPack(s, hi * Pow2(24 - cut) + lo \div Pow2(cut), e + cut, lo % Pow2(cut) # 0)

MulHiLo(s, hi, lo, e) == MulCut(s, hi, lo, e, Max(0, BitLen(hi) - 4))

\* The product from its partial products: high * 2^24 + mid * 2^12 + low.
MulParts(s, high, mid, low, e) ==
    MulHiLo(s, high + mid \div 4096 + (low + (mid % 4096) * 4096) \div Pow2(24),
            (low + (mid % 4096) * 4096) % Pow2(24), e)

\* The product of two 24-bit magnitudes given as 12-bit limbs.
MulLimbs(s, a1, a0, b1, b0, e) == MulParts(s, a1 * b1, a1 * b0 + a0 * b1, a0 * b0, e)

\* a * b on finite non-zero operands.
MulFinite(a, b) ==
    MulLimbs((a.s + b.s) % 2, a.m \div 4096, a.m % 4096, b.m \div 4096, b.m % 4096, a.e + b.e)

\* a * b
F32Mul(a, b) ==
    IF a.k = "nan" \/ b.k = "nan" THEN NaN
    ELSE IF a.k = "inf" \/ b.k = "inf"
    THEN (IF IsZero(a) \/ IsZero(b) THEN NaN ELSE Inf((a.s + b.s) % 2))
    ELSE IF IsZero(a) \/ IsZero(b) THEN Zero
    ELSE MulFinite(a, b)

\* |a| < |b| for operands that are not NaN (infinity above every exponent).
MagLt(a, b) ==
    IF b.k = "inf" THEN a.k # "inf"
    ELSE IF a.k = "inf" THEN FALSE
    ELSE a.e < b.e \/ (a.e = b.e /\ a.m < b.m)

\* a < b
F32Lt(a, b) ==
    IF a.k = "nan" \/ b.k = "nan" THEN FALSE
    ELSE IF IsZero(a) /\ IsZero(b) THEN FALSE
    ELSE IF a.s = 1 /\ b.s = 0 THEN TRUE
    ELSE IF a.s = 0 /\ b.s = 1 THEN FALSE
    ELSE IF a.s = 0 THEN MagLt(a, b) ELSE MagLt(b, a)

\* a > b
F32Gt(a, b) == F32Lt(b, a)

\* a == b
F32Eq(a, b) == a.k # "nan" /\ b.k # "nan" /\ a = b

\* a >= b
F32Ge(a, b) == F32Gt(a, b) \/ F32Eq(a, b)

\* a <= b
F32Le(a, b) == F32Ge(b, a)

\* f32::floor
F32Floor(a) ==
    IF a.k # "fin" \/ a.e >= 0 THEN a
    ELSE IF -a.e > 24 THEN (IF a.s = 0 \/ a.m = 0 THEN Zero ELSE FromInt(-1))
    ELSE IF a.s = 0 \/ a.m % Pow2(-a.e) = 0 THEN RoundPack(a.s, a.m \div Pow2(-a.e), 0, FALSE)
    ELSE RoundPack(1, a.m \div Pow2(-a.e) + 1, 0, FALSE)

\* The next two bits of the 26-bit radicand n at step i, zero past the 13th pair.
SqrtPair(n, i) == IF i < 13 THEN (n \div Pow2(2 * (12 - i))) % 4 ELSE 0

\* One step of the restoring square root: the remainder r is tried against
\* 4 * root + 1, and the root gains one bit.
SqrtTry(i, r, root) ==
    IF r >= root * 4 + 1 THEN <<i + 1, r - (root * 4 + 1), root * 2 + 1>>
    ELSE <<i + 1, r, root * 2>>

\* st is <<i, rem, root>>.
SqrtStep(n, st) == SqrtTry(st[1], st[2] * 4 + SqrtPair(n, st[1]), st[3])

SqrtStep2(n, st) == SqrtStep(n, SqrtStep(n, st))

SqrtStep8(n, st) == SqrtStep2(n, SqrtStep2(n, SqrtStep2(n, SqrtStep2(n, st))))

\* The 26 steps: <<26, remainder, floor(sqrt(n * 2^26))>>.
SqrtBits(n) == SqrtStep2(n, SqrtStep8(n, SqrtStep8(n, SqrtStep8(n, <<0, 0, 0>>))))

SqrtRound(r, e) == RoundPack(0, r[3], e, r[2] # 0)

\* The square root of m * 2^e, 2^23 <= m < 2^24: the exponent is made even.
SqrtNormal(m, e) ==
    IF e % 2 = 1 THEN SqrtRound(SqrtBits(m * 2), (e - 1 - 26) \div 2)
    ELSE SqrtRound(SqrtBits(m), (e - 26) \div 2)

\* f32::sqrt
F32Sqrt(a) ==
    IF a.k = "nan" THEN NaN
    ELSE IF IsZero(a) THEN Zero
    ELSE IF a.s = 1 THEN NaN
    ELSE IF a.k = "inf" THEN a
    ELSE SqrtNormal(a.m * Pow2(24 - BitLen(a.m)), a.e - (24 - BitLen(a.m)))

\* One step of the long division by dd, seven quotient bits at a time.
\* st is <<quotient, remainder>>, remainder < dd < 2^24.
DivStep(dd, st) == <<st[1] * 128 + (st[2] * 128) \div dd, (st[2] * 128) % dd>>

\* <<floor(n * 2^28 / dd), remainder>> for 24-bit n and dd.
DivBits(n, dd) == DivStep(dd, DivStep(dd, DivStep(dd, DivStep(dd, <<n \div dd, n % dd>>))))

DivRound(s, r, e) == RoundPack(s, r[1], e, r[2] # 0)

\* n * 2^en / (dd * 2^ed) for normalised 24-bit n and dd.
DivNormal(s, n, en, dd, ed) == DivRound(s, DivBits(n, dd), en - ed - 28)

\* a / b
F32Div(a, b) ==
    IF a.k = "nan" \/ b.k = "nan" THEN NaN
    ELSE IF a.k = "inf" THEN (IF b.k = "inf" THEN NaN ELSE Inf((a.s + b.s) % 2))
    ELSE IF b.k = "inf" THEN Zero
    ELSE IF IsZero(b) THEN (IF IsZero(a) THEN NaN ELSE Inf((a.s + b.s) % 2))
    ELSE IF IsZero(a) THEN Zero
    ELSE DivNormal((a.s + b.s) % 2,
                   a.m * Pow2(24 - BitLen(a.m)), a.e - (24 - BitLen(a.m)),
                   b.m * Pow2(24 - BitLen(b.m)), b.e - (24 - BitLen(b.m)))

\* The integer part of |a| for a finite a below 2^31.
TruncMag(a) ==
    IF a.e >= 0 THEN a.m * Pow2(a.e)
    ELSE IF -a.e > 24 THEN 0
    ELSE a.m \div Pow2(-a.e)

\* `a as i32`: truncation toward zero, saturating, NaN to 0.
AsI32(a) ==
    IF a.k = "nan" THEN 0
    ELSE IF a.k = "inf" \/ a.e >= 8
    THEN (IF a.s = 0 THEN 2147483647 ELSE (-2147483647) - 1)
    ELSE IF a.s = 0 THEN TruncMag(a) ELSE -TruncMag(a)

\* `a as u8`: truncation toward zero, saturating, NaN to 0.
AsU8(a) ==
    IF a.k = "nan" THEN 0
    ELSE IF a.s = 1 THEN 0
    ELSE IF a.k = "inf" \/ a.e >= 0 THEN 255
    ELSE IF TruncMag(a) > 255 THEN 255
    ELSE TruncMag(a)

(***************************************************************************)
(* perlin.rs                                                               *)
(***************************************************************************)

\* Table of permutations.
P ==
    << 151, 160, 137, 91, 90, 15, 131, 13, 201, 95, 96, 53, 194, 233, 7, 225, 140, 36, 103, 30, 69,
       142, 8, 99, 37, 240, 21, 10, 23, 190, 6, 148, 247, 120, 234, 75, 0, 26, 197, 62, 94, 252, 219,
       203, 117, 35, 11, 32, 57, 177, 33, 88, 237, 149, 56, 87, 174, 20, 125, 136, 171, 168, 68, 175,
       74, 165, 71, 134, 139, 48, 27, 166, 77, 146, 158, 231, 83, 111, 229, 122, 60, 211, 133, 230,
       220, 105, 92, 41, 55, 46, 245, 40, 244, 102, 143, 54, 65, 25, 63, 161, 1, 216, 80, 73, 209, 76,
       132, 187, 208, 89, 18, 169, 200, 196, 135, 130, 116, 188, 159, 86, 164, 100, 109, 198, 173,
       186, 3, 64, 52, 217, 226, 250, 124, 123, 5, 202, 38, 147, 118, 126, 255, 82, 85, 212, 207, 206,
       59, 227, 47, 16, 58, 17, 182, 189, 28, 42, 223, 183, 170, 213, 119, 248, 152, 2, 44, 154, 163,
       70, 221, 153, 101, 155, 167, 43, 172, 9, 129, 22, 39, 253, 19, 98, 108, 110, 79, 113, 224, 232,
       178, 185, 112, 104, 218, 246, 97, 228, 251, 34, 242, 193, 238, 210, 144, 12, 191, 179, 162,
       241, 81, 51, 145, 235, 249, 14, 239, 107, 49, 192, 214, 31, 181, 199, 106, 157, 184, 84, 204,
       176, 115, 121, 50, 45, 127, 4, 150, 254, 138, 236, 205, 93, 222, 114, 67, 29, 24, 72, 243, 141,
       128, 195, 78, 66, 215, 61, 156, 180 >>

\* The slot of the table that p(i) reads: (i as usize) % P.len().  For i < 0 the
\* cast gives 2^64 + i, and 256 divides 2^64, so the slot is i modulo 256 there too.
slot(i) == i % Len(P)

\* Look-up an item from the table of permutations (a tuple counts from 1).
p(i) == table[slot(i) + 1]

\* `i32::MIN as f32` and `i32::MAX as f32` (2^31 - 1 rounds up to 2^31).
I32MinAsF32 == F32(1, 8388608, 8)

I32MaxAsF32 == F32(0, 8388608, 8)

clamp(min, max, x) ==
    IF F32Lt(x, min) THEN min
    ELSE IF F32Gt(x, max) THEN max
    ELSE x

\* The last two lines of ucu: x - x_i32 as f32, and the pair returned.
ucu_offset(x, x_i32) == <<x_i32, F32Sub(x, FromInt(x_i32))>>

\* Find unit-cube coordinate and offset into the unit cube: <<x_i32, x>>.
\* (`& 255` on a two's complement i32 is the remainder modulo 256, never negative.)
ucu(x) == ucu_offset(x, AsI32(F32Floor(clamp(I32MinAsF32, I32MaxAsF32, x))) % 256)

fade(t) ==
    F32Mul(F32Mul(F32Mul(t, t), t),
           F32Add(F32Mul(t, F32Sub(F32Mul(t, FromInt(6)), FromInt(15))), FromInt(10)))

lerp(t, a, b) == F32Add(a, F32Mul(t, F32Sub(b, a)))

\* grad from h = hash & 0x0f on (`h & 1` is h % 2, `h & 2 == 0` is (h \div 2) % 2 = 0).
grad_h(h, x, y, z) ==
    F32Add(IF h % 2 = 0 THEN (IF h < 8 THEN x ELSE y)
                        ELSE F32Neg(IF h < 8 THEN x ELSE y),
           IF (h \div 2) % 2 = 0
           THEN (IF h < 4 THEN y ELSE IF h = 12 \/ h = 14 THEN x ELSE z)
           ELSE F32Neg(IF h < 4 THEN y ELSE IF h = 12 \/ h = 14 THEN x ELSE z))

\* A faulty grad: the selector masked with 0x1f, one bit too wide.
grad_mask_1f(hash, x, y, z) == grad_h(hash % 32, x, y, z)

\* (`hash & 0x0f` on a two's complement i32 is the remainder modulo 16.)
grad(hash, x, y, z) == grad_h(hash % 16, x, y, z)

\* The hash chain of noise from a and b on: aa, ab, ba, bb.
hashes_ab(a, b, z_cube) ==
    [a  |-> a,
     aa |-> p(a) + z_cube,
     ab |-> p(a + 1) + z_cube,
     b  |-> b,
     ba |-> p(b) + z_cube,
     bb |-> p(b + 1) + z_cube]

\* A faulty hash chain: the + 1 of the far x corner added after the look-up, not
\* before it.
hashes_late_increment(x_cube, y_cube, z_cube) ==
    hashes_ab(p(x_cube) + y_cube, p(x_cube) + 1 + y_cube, z_cube)

\* The hash chain of noise: a, aa, ab, b, ba, bb.
hashes(x_cube, y_cube, z_cube) ==
    hashes_ab(p(x_cube) + y_cube, p(x_cube + 1) + y_cube, z_cube)

\* Every argument noise hands to p, in the order of the calls.
lookups_h(x_cube, h) ==
    << x_cube, h.a, h.a + 1, x_cube + 1, h.b, h.b + 1,
       h.aa, h.ba, h.ab, h.bb, h.aa + 1, h.ba + 1, h.ab + 1, h.bb + 1 >>

lookups(x_cube, y_cube, z_cube) == lookups_h(x_cube, hashes(x_cube, y_cube, z_cube))

\* The eight corner gradients and their interpolation along x, then y, then z;
\* x1, y1, z1 are x - 1.0, y - 1.0, z - 1.0.
corners(h, u, v, w, x, y, z, x1, y1, z1) ==
    lerp(w,
         lerp(v,
              lerp(u, grad(p(h.aa), x, y, z), grad(p(h.ba), x1, y, z)),
              lerp(u, grad(p(h.ab), x, y1, z), grad(p(h.bb), x1, y1, z))),
         lerp(v,
              lerp(u, grad(p(h.aa + 1), x, y, z1), grad(p(h.ba + 1), x1, y, z1)),
              lerp(u, grad(p(h.ab + 1), x, y1, z1), grad(p(h.bb + 1), x1, y1, z1))))

\* noise from the unit cube on: the fade weights, the hash chain and the corners.
noise_cube(x_cube, y_cube, z_cube, x, y, z) ==
    corners(hashes(x_cube, y_cube, z_cube), fade(x), fade(y), fade(z), x, y, z,
            F32Sub(x, FromInt(1)), F32Sub(y, FromInt(1)), F32Sub(z, FromInt(1)))

noise_ucu(cx, cy, cz) == noise_cube(cx[1], cy[1], cz[1], cx[2], cy[2], cz[2])

\* Improved Perlin Noise.
noise(x, y, z) == noise_ucu(ucu(x), ucu(y), ucu(z))

locals_ucu(cx, cy, cz, args_p) ==
    [x_cube |-> cx[1], y_cube |-> cy[1], z_cube |-> cz[1],
     x |-> cx[2], y |-> cy[2], z |-> cz[2],
     p_args  |-> args_p,
     p_slots |-> [i \in 1..14 |-> slot(args_p[i])]]

cube_lookups(cx, cy, cz) == locals_ucu(cx, cy, cz, lookups(cx[1], cy[1], cz[1]))

\* The locals of noise after its first three lines, and what it reads of the table.
noise_locals(x, y, z) == cube_lookups(ucu(x), ucu(y), ucu(z))

(***************************************************************************)
(* Sample coordinates: the quarter grid the golden test samples, around 0  *)
(* (both signs) and around 256, where the cell index wraps; the integers   *)
(* 5 and -3; and two values beyond the i32 range.                          *)
(***************************************************************************)
NegQ == 4

PosQ == 5

WrapQ == 2

\* k / 4 as an f32 (exact for |k| < 2^24).
Quarter(k) == RoundPack(IF k < 0 THEN 1 ELSE 0, IF k < 0 THEN -k ELSE k, -2, FALSE)

QCoords == ((-NegQ)..PosQ) \cup ((1024 - WrapQ)..(1024 + WrapQ)) \cup {-12, 20}

Huge == F32(0, 8388608, 9)

Coords == {Quarter(k) : k \in QCoords} \cup {Huge, F32Neg(Huge)}

NoCall == [none |-> TRUE]

Init ==
    /\ table = P
    /\ pc = "call"
    /\ fn = "noise"
    /\ args \in [x : Coords, y : Coords, z : Coords]
    /\ locals = NoCall
    /\ ret = NoCall

\* A faulty noise: a call that also swaps the first two table entries and drops
\* the first.
NoiseScribbling ==
    /\ pc = "call"
    /\ fn = "noise"
    /\ locals' = noise_locals(args.x, args.y, args.z)
    /\ ret' = noise(args.x, args.y, args.z)
    /\ pc' = "done"
    /\ table' = [table EXCEPT ![1] = table[2]]
    /\ UNCHANGED <<fn, args>>

\* pub fn noise(x: f32, y: f32, z: f32) -> f32
Noise ==
    /\ pc = "call"
    /\ fn = "noise"
    /\ locals' = noise_locals(args.x, args.y, args.z)
    /\ ret' = noise(args.x, args.y, args.z)
    /\ pc' = "done"
    /\ UNCHANGED <<table, fn, args>>

Next == Noise

Spec == Init /\ [][Next]_vars

(***************************************************************************)
(* The lattice: every cell index on x, the cells next to both ends of the  *)
(* index range on y and z.                                                 *)
(***************************************************************************)
EdgeCells == 2

LatticeCells == (0..EdgeCells) \cup ((255 - EdgeCells)..255)

InitLattice ==
    /\ table = P
    /\ pc = "call"
    /\ fn = "noise"
    /\ args \in [x : {FromInt(n) : n \in 0..255},
                 y : {FromInt(n) : n \in LatticeCells},
                 z : {FromInt(n) : n \in LatticeCells}]
    /\ locals = NoCall
    /\ ret = NoCall

SpecLattice == InitLattice /\ [][Next]_vars

(***************************************************************************)
(* tests::perlin_golden_test: one pixel of the 32 x 32 image.              *)
(***************************************************************************)
ImageSize == 32

\* A faulty pixel mapping: rounded to the nearest integer before the cast.
luma_rounded(ns) ==
    AsU8(F32Floor(F32Add(F32Mul(F32Add(F32Mul(Quarter(2), ns), Quarter(2)), FromInt(255)),
                         Quarter(2))))

\* The byte of a noise value: ((0.5 * noise + 0.5) * 255.0) as u8.
luma(ns) == AsU8(F32Mul(F32Add(F32Mul(Quarter(2), ns), Quarter(2)), FromInt(255)))

pixel_noise(fx, fy, ns) == [x |-> fx, y |-> fy, noise |-> ns, n |-> luma(ns)]

pixel_at(fx, fy) == pixel_noise(fx, fy, noise(fx, fy, Zero))

\* The closure handed to GrayImage::from_fn, cell_size = 4.0: its locals and the byte n.
golden_pixel(x, y) == pixel_at(F32Div(FromInt(x), FromInt(4)), F32Div(FromInt(y), FromInt(4)))

InitGolden ==
    /\ table = P
    /\ pc = "call"
    /\ fn = "perlin_golden_test"
    /\ args \in [x : 0..(ImageSize - 1), y : 0..(ImageSize - 1)]
    /\ locals = NoCall
    /\ ret = NoCall

GoldenPixel ==
    /\ pc = "call"
    /\ fn = "perlin_golden_test"
    /\ locals' = golden_pixel(args.x, args.y)
    /\ ret' = locals'.n
    /\ pc' = "done"
    /\ UNCHANGED <<table, fn, args>>

NextGolden == GoldenPixel

SpecGolden == InitGolden /\ [][NextGolden]_vars

(***************************************************************************)
(* grad alone: hashes on both sides of the u8 range p returns, offsets on  *)
(* the quarter grid.                                                       *)
(***************************************************************************)
HashPad == 16

OffQ == 2

InitGrad ==
    /\ table = P
    /\ pc = "call"
    /\ fn = "grad"
    /\ args \in [hash : (-HashPad)..(255 + HashPad),
                 x : {Quarter(k) : k \in (-OffQ)..OffQ},
                 y : {Quarter(k) : k \in (-OffQ)..OffQ},
                 z : {Quarter(k) : k \in (-OffQ)..OffQ}]
    /\ locals = NoCall
    /\ ret = NoCall

Grad ==
    /\ pc = "call"
    /\ fn = "grad"
    /\ ret' = grad(args.hash, args.x, args.y, args.z)
    /\ pc' = "done"
    /\ UNCHANGED <<table, fn, args, locals>>

NextGrad == Grad

SpecGrad == InitGrad /\ [][NextGrad]_vars

(***************************************************************************)
(* geom.rs, with R = f32                                                   *)
(***************************************************************************)
None == [some |-> FALSE]

Some(v) == [some |-> TRUE, v |-> v]

P2D_new(x, y) == [x |-> x, y |-> y]

squared(dx, dy) == F32Add(F32Mul(dx, dx), F32Mul(dy, dy))

distance_between_squared(p1, p2) == squared(F32Sub(p1.x, p2.x), F32Sub(p1.y, p2.y))

distance_between(p1, p2) == F32Sqrt(distance_between_squared(p1, p2))

\* A faulty AABB::new: `>=` for `>`.
AABB_new_ge(origin, width, height) ==
    IF F32Ge(width, FromInt(0)) /\ F32Ge(height, FromInt(0))
    THEN Some([origin |-> origin, width |-> width, height |-> height])
    ELSE None

AABB_new(origin, width, height) ==
    IF F32Gt(width, FromInt(0)) /\ F32Gt(height, FromInt(0))
    THEN Some([origin |-> origin, width |-> width, height |-> height])
    ELSE None

Ellipse_new(center, x_radius, y_radius, angle) ==
    IF F32Gt(x_radius, FromInt(0)) /\ F32Gt(y_radius, FromInt(0))
    THEN Some([center |-> center, x_radius |-> x_radius, y_radius |-> y_radius,
               angle |-> angle])
    ELSE None

\* Heron's formula from the semiperimeter s and the edge lengths.
heron(s, a, b, c) ==
    F32Sqrt(F32Mul(F32Mul(F32Mul(s, F32Sub(s, a)), F32Sub(s, b)), F32Sub(s, c)))

\* Semiperimeter: half * (a + b + c), half = R::from(0.5).
area_edges(a, b, c) == heron(F32Mul(Quarter(2), F32Add(F32Add(a, b), c)), a, b, c)

\* Find the area of a triangle (points count from 1 here): the three edge lengths
\* a, b, c are computed first, then the formula is applied to them.
Triangle_area(self) ==
    CHOOSE area \in {area_edges(a, b, c) :
                        a \in {distance_between(self.points[1], self.points[2])},
                        b \in {distance_between(self.points[2], self.points[3])},
                        c \in {distance_between(self.points[3], self.points[1])}} : TRUE

\* A faulty Triangle::new: `>` for `>=`.
new_candidate_gt(candidate, min_area) ==
    IF F32Gt(Triangle_area(candidate), min_area) THEN Some(candidate) ELSE None

new_candidate(candidate, min_area) ==
    IF F32Ge(Triangle_area(candidate), min_area) THEN Some(candidate) ELSE None

Triangle_new(p1, p2, p3, min_area) == new_candidate([points |-> <<p1, p2, p3>>], min_area)

\* Sizes (widths, heights, radii) and angles on the quarter grid, both signs,
\* with infinity and NaN; points on the integer grid.
DimQ == 3

MaxPt == 1

Dims == {Quarter(k) : k \in (-DimQ)..DimQ} \cup {Inf(0), Inf(1), NaN}

Angles == {Quarter(k) : k \in -1..1}

\* Corners of the small grid, with x = 3 and y = 4 for the 3-4-5 triangle.
PtCoords == 0..MaxPt

Points == {P2D_new(FromInt(i), FromInt(j)) : i \in PtCoords \cup {3}, j \in PtCoords \cup {4}}

\* 1e-3 as an f32, and the other minimum areas tried.
Milli == F32(0, 8589935, -33)

MinAreas == {Milli, Zero, Quarter(2), FromInt(6), FromInt(8), NaN}

InitGeom ==
    /\ table = P
    /\ pc = "call"
    /\ locals = NoCall
    /\ ret = NoCall
    /\ \/ /\ fn = "AABB::new"
          /\ args \in [origin : {P2D_new(Zero, Zero), P2D_new(FromInt(-1), FromInt(4))},
                       width : Dims, height : Dims]
       \/ /\ fn = "Ellipse::new"
          /\ args \in [center : {P2D_new(Zero, Zero), P2D_new(FromInt(-1), FromInt(4))},
                       x_radius : Dims, y_radius : Dims, angle : Angles]
       \/ /\ fn = "Triangle::new"
          /\ args \in [p1 : Points, p2 : Points, p3 : Points, min_area : MinAreas]

AABBNew ==
    /\ pc = "call"
    /\ fn = "AABB::new"
    /\ ret' = AABB_new(args.origin, args.width, args.height)
    /\ pc' = "done"
    /\ UNCHANGED <<table, fn, args, locals>>

EllipseNew ==
    /\ pc = "call"
    /\ fn = "Ellipse::new"
    /\ ret' = Ellipse_new(args.center, args.x_radius, args.y_radius, args.angle)
    /\ pc' = "done"
    /\ UNCHANGED <<table, fn, args, locals>>

TriangleNew ==
    /\ pc = "call"
    /\ fn = "Triangle::new"
    /\ ret' = Triangle_new(args.p1, args.p2, args.p3, args.min_area)
    /\ pc' = "done"
    /\ UNCHANGED <<table, fn, args, locals>>

\* tri.area() on the triangle Triangle::new returned.
TriangleArea ==
    /\ pc = "done"
    /\ fn = "Triangle::new"
    /\ ret.some
    /\ locals' = [area |-> Triangle_area(ret.v)]
    /\ pc' = "area"
    /\ UNCHANGED <<table, fn, args, ret>>

NextGeom == AABBNew \/ EllipseNew \/ TriangleNew \/ TriangleArea

SpecGeom == InitGeom /\ [][NextGeom]_vars

(***************************************************************************)
(* The reference: Improved Perlin Noise as steps 1-5 of the specification  *)
(* give it, in exact arithmetic on the z = 0 slice of the quarter grid.    *)
(* A coordinate is q quarters; a gradient is in units of 1/4, a fade       *)
(* weight in units of 1/512, the noise value in units of 2^-20.            *)
(***************************************************************************)

\* Step 1: the cell index floor(q / 4) mod 256 and the offset q/4 - floor(q / 4).
RefCell(q) == (q \div 4) % 256

RefOffset(q) == q - 4 * (q \div 4)

\* Step 2: 6t^5 - 15t^4 + 10t^3 at t = o / 4 is (3 o^5 - 30 o^4 + 80 o^3) / 512.
RefFade(o) == 3 * o^5 - 30 * o^4 + 80 * o^3

\* Step 3: the hash of the corner (i, j, k) of the cell: three chained look-ups.
RefHash(cx, cy, cz, i, j, k) ==
    P[((P[((P[((cx + i) % 256) + 1] + cy + j) % 256) + 1] + cz + k) % 256) + 1]

\* Step 4: the gradient directions by selector (the low 4 bits of the hash): the
\* 12 cube-edge directions and the 4 repeats, as the reference implementation
\* orders them.
RefDirections ==
    << <<1, 1, 0>>, <<-1, 1, 0>>, <<1, -1, 0>>, <<-1, -1, 0>>,
       <<1, 0, 1>>, <<-1, 0, 1>>, <<1, 0, -1>>, <<-1, 0, -1>>,
       <<0, 1, 1>>, <<0, -1, 1>>, <<0, 1, -1>>, <<0, -1, -1>>,
       <<1, 1, 0>>, <<0, -1, 1>>, <<-1, 1, 0>>, <<0, -1, -1>> >>

Dot(d, x, y, z) == d[1] * x + d[2] * y + d[3] * z

\* The contribution of corner (i, j, 0) at offset (ox, oy, 0), in units of 1/4.
RefCorner(cx, cy, ox, oy, i, j) ==
    Dot(RefDirections[(RefHash(cx, cy, 0, i, j, 0) % 16) + 1], ox - 4 * i, oy - 4 * j, 0)

\* Step 5 along x, in units of 1/2048: a + u * (b - a).
RefLerpX(cx, cy, ox, oy, j) ==
    512 * RefCorner(cx, cy, ox, oy, 0, j)
    + RefFade(ox) * (RefCorner(cx, cy, ox, oy, 1, j) - RefCorner(cx, cy, ox, oy, 0, j))

\* Step 5 along y, in units of 2^-20.  Along z the weight is fade(0) = 0, which
\* leaves the z = 0 face of the cell as the value.
RefLerpY(cx, cy, ox, oy) ==
    512 * RefLerpX(cx, cy, ox, oy, 0)
    + RefFade(oy) * (RefLerpX(cx, cy, ox, oy, 1) - RefLerpX(cx, cy, ox, oy, 0))

\* The reference noise at (qx / 4, qy / 4, 0), in units of 2^-20.
RefNoise(qx, qy) == RefLerpY(RefCell(qx), RefCell(qy), RefOffset(qx), RefOffset(qy))

\* n * 2^-20 as an f32 (exact for |n| < 2^24).
FromFix20(n) == RoundPack(IF n < 0 THEN 1 ELSE 0, IF n < 0 THEN -n ELSE n, -20, FALSE)

\* (0.5 * r + 0.5) * 255 for r = n * 2^-20 is (n + 2^20) * 255 / 2^21: rounded to
\* the nearest integer, and cut to its integer part.
RefPixelRound(n) == (2 * (n + Pow2(20)) * 255 + Pow2(21)) \div Pow2(22)

RefPixelTrunc(n) == ((n + Pow2(20)) * 255) \div Pow2(21)

(***************************************************************************)
(* The properties                                                          *)
(***************************************************************************)
One == FromInt(1)

Returned == pc = "done" /\ fn = "noise"

\* 1 + 2^-10: the bound of the range with a small tolerance.
OnePlusEps == F32(0, 8388608 + 8192, -23)

\* C1: for every coordinate triple, negative coordinates and coordinates of
\* magnitude 256 or more included, the value noise returns lies in
\* [-1 - eps, 1 + eps].
NoiseInRange ==
    Returned => F32Le(ret, OnePlusEps) /\ F32Ge(ret, F32Neg(OnePlusEps))

\* A finite f32 whose value is an integer.
IsInteger(a) == a.k = "fin" /\ F32Floor(a) = a

\* C2: noise(n, 0.0, 0.0) is 0.0 for every integer n: positive, zero or negative,
\* of any magnitude, 256 and above included.
LatticeZero ==
    (Returned /\ IsInteger(args.x) /\ IsZero(args.y) /\ IsZero(args.z)) => IsZero(ret)

\* C3: every pixel (px, py) of the golden test's 32 x 32 image reads the value r the
\* reference algorithm gives at (px / 4, py / 4, 0), and its byte is the integer
\* part of (0.5 * r + 0.5) * 255: the product is cut, not rounded.
GoldenPixelIsTruncated ==
    pc = "done" /\ fn = "perlin_golden_test" =>
        /\ args.x \in 0..(ImageSize - 1) /\ args.y \in 0..(ImageSize - 1)
        /\ locals.noise = FromFix20(RefNoise(args.x, args.y))
        /\ ret = RefPixelTrunc(RefNoise(args.x, args.y))

\* C3 as stated: the byte is round((0.5 * r + 0.5) * 255).
GoldenPixelIsRounded ==
    pc = "done" /\ fn = "perlin_golden_test" =>
        ret = RefPixelRound(RefNoise(args.x, args.y))

\* A rendered pixel of non-zero noise whose byte is below the rounded value.
GoldenPixelBelowRounded ==
    /\ pc = "done" /\ fn = "perlin_golden_test"
    /\ ~IsZero(locals.noise)
    /\ ret = RefPixelTrunc(RefNoise(args.x, args.y))
    /\ ret + 1 = RefPixelRound(RefNoise(args.x, args.y))

\* C4: for every cell-index triple in [0, 255]^3 every argument noise hands to p is
\* an integer in [0, 511] (no sum comes near the i32 range), and each look-up reads
\* the table slot (argument mod 256), a slot the table has.
LookupsInRange ==
    Returned =>
        /\ locals.x_cube \in 0..255 /\ locals.y_cube \in 0..255 /\ locals.z_cube \in 0..255
        /\ \A i \in 1..14 :
              /\ locals.p_args[i] \in 0..511
              /\ locals.p_slots[i] = locals.p_args[i] % 256
              /\ locals.p_slots[i] + 1 \in DOMAIN table

\* A call whose look-ups reach the largest argument, 511, read at slot 255.
LookupAt511 ==
    /\ Returned
    /\ \E i \in 1..14 : locals.p_args[i] = 511 /\ locals.p_slots[i] = 255

\* C5: the permutation table has 256 entries, holds each value of 0..255 exactly
\* once, and is the table P before and after every operation.
TableIsFixedPermutation ==
    /\ table = P
    /\ Len(table) = 256
    /\ {table[i] : i \in 1..256} = 0..255

\* A call of noise has returned a non-zero value and left the table as it was.
TableAfterNoise ==
    /\ Returned
    /\ ~IsZero(ret)
    /\ table = P
    /\ Cardinality({table[i] : i \in 1..256}) = 256

Is345 ==
    /\ args.p1 = P2D_new(Zero, Zero)
    /\ args.p2 = P2D_new(FromInt(3), Zero)
    /\ args.p3 = P2D_new(Zero, FromInt(4))

Positive(a) == a.k # "nan" /\ a.s = 0 /\ ~IsZero(a)

\* C7: AABB::new and Ellipse::new return a value exactly when both sizes are
\* strictly greater than zero and None when either is zero or negative; a box or
\* an ellipse that exists has strictly positive sizes and the origin (center) and
\* angle it was given.
PositiveSizesContract ==
    /\ fn = "AABB::new" /\ pc = "done" =>
          /\ ret.some <=> Positive(args.width) /\ Positive(args.height)
          /\ ~ret.some => ret = None
          /\ ret.some =>
                /\ Positive(ret.v.width) /\ Positive(ret.v.height)
                /\ ret.v = [origin |-> args.origin, width |-> args.width,
                            height |-> args.height]
    /\ fn = "Ellipse::new" /\ pc = "done" =>
          /\ ret.some <=> Positive(args.x_radius) /\ Positive(args.y_radius)
          /\ ~ret.some => ret = None
          /\ ret.some =>
                /\ Positive(ret.v.x_radius) /\ Positive(ret.v.y_radius)
                /\ ret.v = [center |-> args.center, x_radius |-> args.x_radius,
                            y_radius |-> args.y_radius, angle |-> args.angle]

\* A box of width 0 and positive height was asked for and None came back.
ZeroWidthBoxRefused ==
    /\ fn = "AABB::new" /\ pc = "done"
    /\ IsZero(args.width) /\ Positive(args.height)
    /\ ret = None

\* The remainder modulo 256 of an integer-valued finite f32 (a multiple of 2^8 from
\* exponent 8 on).
IntMod256(f) ==
    IF IsZero(f) \/ f.e >= 8 THEN 0
    ELSE IF f.e >= 0 THEN ((IF f.s = 1 THEN -1 ELSE 1) * (f.m % 256) * Pow2(f.e)) % 256
    ELSE ((IF f.s = 1 THEN -1 ELSE 1) * (f.m \div Pow2(-f.e))) % 256

\* ucu's contract on one axis: the cell is floor(x) mod 256, the offset is
\* x - floor(x) and lies in [0, 1).
UcuAxis(x, cube, offset) ==
    /\ cube = IntMod256(F32Floor(x))
    /\ cube \in 0..255
    /\ offset = F32Sub(x, F32Floor(x))
    /\ F32Ge(offset, Zero) /\ F32Lt(offset, One)

\* C8: for every coordinate x, negative, in [0, 256), or 256 and above, ucu(x)
\* gives the cell index floor(x) mod 256, in [0, 255], and the offset x - floor(x)
\* from the unmasked floor, which lies in [0, 1).
UcuContract ==
    Returned =>
        /\ UcuAxis(args.x, locals.x_cube, locals.x)
        /\ UcuAxis(args.y, locals.y_cube, locals.y)
        /\ UcuAxis(args.z, locals.z_cube, locals.z)

\* The cell just below the integer boundary n: floor(n - 1) mod 256.
CellBelow(n) == (IntMod256(n) - 1) % 256

\* C9: for every integer boundary n on one axis and every value of the other two
\* coordinates, the 8-corner interpolation of the cell just below n, with that
\* axis's offset 1, equals noise at n itself; the boundary where the cell index
\* wraps from 255 to 0 included.
BoundaryContinuity ==
    Returned =>
        /\ IsInteger(args.x) =>
              F32Eq(noise_cube(CellBelow(args.x), locals.y_cube, locals.z_cube,
                               One, locals.y, locals.z), ret)
        /\ IsInteger(args.y) =>
              F32Eq(noise_cube(locals.x_cube, CellBelow(args.y), locals.z_cube,
                               locals.x, One, locals.z), ret)
        /\ IsInteger(args.z) =>
              F32Eq(noise_cube(locals.x_cube, locals.y_cube, CellBelow(args.z),
                               locals.x, locals.y, One), ret)

\* The direction grad uses for a hash, read off the three unit offsets.
GradDirection(hash) ==
    << AsI32(grad(hash, One, Zero, Zero)),
       AsI32(grad(hash, Zero, One, Zero)),
       AsI32(grad(hash, Zero, Zero, One)) >>

\* The 12 directions with exactly two non-zero components, each +1 or -1.
EdgeDirections ==
    {d \in [1..3 -> {-1, 0, 1}] : Cardinality({i \in 1..3 : d[i] # 0}) = 2}

\* The value of an f32 of the quarter grid, in quarters.
InQuarters(a) ==
    IF IsZero(a) THEN 0
    ELSE (IF a.s = 1 THEN -1 ELSE 1)
         * (IF a.e >= -2 THEN a.m * Pow2(a.e + 2) ELSE a.m \div Pow2((-2) - a.e))

\* The sign a selector bit gives: cleared +1, set -1.
BitSign(h, bit) == IF (h \div bit) % 2 = 0 THEN 1 ELSE -1

\* C10: grad depends on the hash only through its low 4 bits and is the dot product
\* of the offset with a direction of exactly two non-zero components, bit 0 giving
\* the sign of the first, bit 1 the sign of the second; the 16 selectors give
\* exactly the 12 such directions, and 12, 13, 14, 15 repeat x + y, -y + z, -x + y,
\* -y - z.
GradContract ==
    pc = "done" /\ fn = "grad" =>
        /\ GradDirection(args.hash) = GradDirection(args.hash % 16)
        /\ GradDirection(args.hash) \in EdgeDirections
        /\ \E i, j \in 1..3 :
              /\ i # j
              /\ GradDirection(args.hash)[i] = BitSign(args.hash % 16, 1)
              /\ GradDirection(args.hash)[j] = BitSign(args.hash % 16, 2)
        /\ ret = Quarter(Dot(GradDirection(args.hash % 16), InQuarters(args.x),
                             InQuarters(args.y), InQuarters(args.z)))
        /\ {GradDirection(h) : h \in 0..15} = EdgeDirections
        /\ {GradDirection(h) : h \in 0..11} = EdgeDirections
        /\ GradDirection(12) = <<1, 1, 0>>
        /\ GradDirection(13) = <<0, -1, 1>>
        /\ GradDirection(14) = <<-1, 1, 0>>
        /\ GradDirection(15) = <<0, -1, -1>>

\* grad has returned for a hash above 15 whose selector is 13, on an offset with
\* three non-zero components: -y + z.
GradRepeatedSelector ==
    /\ pc = "done" /\ fn = "grad"
    /\ args.hash > 15 /\ args.hash % 16 = 13
    /\ ~IsZero(args.x) /\ ~IsZero(args.y) /\ ~IsZero(args.z)
    /\ ret = F32Sub(args.z, args.y)
    /\ ~IsZero(ret)

====
